---- MODULE Spec2Model ----
(***************************************************************************)
(* A model of src/src/lib.rs (rust-cfb): the CompoundFile container over   *)
(* a Cursor<Vec<u8>> medium, its Storage handle and its Stream cursor.     *)
(*                                                                         *)
(* Representation.  A byte is a number 0..255 and the medium is a sequence *)
(* of bytes.  A u32 is held as the i32 with the same 32 bits (TLC's        *)
(* integers are 32 bits wide): 0xffffffff is -1, 0xfffffffe is -2, and so  *)
(* on; ULess is the unsigned order.  A position of the medium (u64) is a   *)
(* pair <<q, r>> that stands for q * POS_LIMB + r.  usize is 64 bits wide. *)
(* A name is the sequence of its UTF-16 code units.                        *)
(***************************************************************************)
EXTENDS Integers, Sequences, FiniteSets, TLC

\* ------------------------------------------------------------------------
\* Constants of the source
HEADER_LEN == 512
DIR_ENTRY_LEN == 128
MAGIC_NUMBER == <<208, 207, 17, 224, 161, 177, 26, 225>>
MINOR_VERSION == 62
BYTE_ORDER_MARK == 65534
MINI_SECTOR_SHIFT == 6
MINI_STREAM_MAX_LEN == 4096
MAX_REGULAR_SECTOR == -6
FAT_SECTOR == -3
END_OF_CHAIN == -2
FREE_SECTOR == -1
ROOT_DIR_NAME == <<82, 111, 111, 116, 32, 69, 110, 116, 114, 121>>
DIR_NAME_MAX_LEN == 31
OBJ_TYPE_UNALLOCATED == 0
OBJ_TYPE_ROOT == 5
\* the header holds the first 109 DIFAT entries
HEADER_DIFAT_LEN == 109
\* the limb of a medium position <<q, r>> = q * POS_LIMB + r
POS_LIMB == 1048576

\* ------------------------------------------------------------------------
\* Bounds of the model
\* the longest stream a cursor is opened on
MaxStreamLen == 1536
\* the longest buffer handed to read
MaxBufLen == 600
\* the longest name handed to set_name, in UTF-16 code units
MaxNameLen == 33
\* the directory sectors open is followed through (a walk on a chain with a
\* cycle has no end)
MaxDirWalk == 4
\* the DIFAT sectors open is followed through
MaxDifatWalk == 3

\* ------------------------------------------------------------------------
\* Bytes and integers (byteorder's LittleEndian readers and writers)
Rep(x, n) == [i \in 1..n |-> x]

Min(a, b) == IF a < b THEN a ELSE b

Max(a, b) == IF a < b THEN b ELSE a

\* the unsigned order of two u32
ULess(a, b) == IF (a < 0) = (b < 0) THEN a < b ELSE b < 0

write_u8(n) == <<n>>

write_u16(n) == <<n % 256, n \div 256>>

write_u32(x) ==
    LET y == IF x >= 0 THEN x ELSE x + 1073741824 + 1073741824
        top == (y \div 16777216) + (IF x >= 0 THEN 0 ELSE 128)
    IN  <<y % 256, (y \div 256) % 256, (y \div 65536) % 256, top>>

read_u16(b) == b[1] + 256 * b[2]

read_u32(b) ==
    b[1] + 256 * b[2] + 65536 * b[3]
      + 16777216 * (IF b[4] < 128 THEN b[4] ELSE b[4] - 256)

\* `sector as usize`, split in two 16-bit halves <<high, low>>
Halves(x) ==
    IF x >= 0 THEN <<x \div 65536, x % 65536>>
    ELSE LET y == x + 1073741824 + 1073741824
         IN  <<(y \div 65536) + 32768, y % 65536>>

RECURSIVE Flatten(_)
Flatten(chunks) ==
    IF Len(chunks) = 0 THEN <<>>
    ELSE IF Len(chunks) = 1 THEN chunks[1]
    ELSE LET h == Len(chunks) \div 2
         IN  Flatten(SubSeq(chunks, 1, h))
               \o Flatten(SubSeq(chunks, h + 1, Len(chunks)))

\* ------------------------------------------------------------------------
\* Version
from_number(n) == IF n = 3 THEN "V3" ELSE IF n = 4 THEN "V4" ELSE "None"

number(v) == IF v = "V3" THEN 3 ELSE 4

sector_shift(v) == IF v = "V3" THEN 9 ELSE 12

sector_len(v) == 2 ^ sector_shift(v)

Versions == {"V3", "V4"}

\* ------------------------------------------------------------------------
\* The medium: a Cursor<Vec<u8>>
PosOf(n) == <<n \div POS_LIMB, n % POS_LIMB>>

\* Cursor::read of at most n bytes at position p: what is there, maybe less
ReadAt(m, p, n) ==
    IF p[1] # 0 \/ p[2] >= Len(m) THEN <<>>
    ELSE SubSeq(m, p[2] + 1, Min(Len(m), p[2] + n))

\* read_exact and the read_uN of byteorder fail with UnexpectedEof on less
CanRead(m, p, n) == p[1] = 0 /\ p[2] + n <= Len(m)

\* Cursor<Vec<u8>>::write at a position p inside the first limb: the vector
\* grows, zero-filled, to hold the bytes
WriteAt(m, p, bytes) ==
    [i \in 1..Max(Len(m), p + Len(bytes)) |->
        IF i > p /\ i <= p + Len(bytes) THEN bytes[i - p]
        ELSE IF i <= Len(m) THEN m[i] ELSE 0]

\* the position seek_within_sector moves the medium to
SectorPos(v, sector_index, offset_within_sector) ==
    LET h == Halves(sector_index)
        low == offset_within_sector + sector_len(v) * (1 + h[2])
    IN  <<h[1] * ((sector_len(v) * 65536) \div POS_LIMB) + (low \div POS_LIMB),
          low % POS_LIMB>>

\* ------------------------------------------------------------------------
\* DirEntry
DirEntry(sector, name, obj_type) ==
    [sector |-> sector, name |-> name, obj_type |-> obj_type]

\* encode_utf16 of the name, zero-padded to 32 code units
NameField(name_utf16) ==
    Flatten([i \in 1..32 |->
        write_u16(IF i <= Len(name_utf16) THEN name_utf16[i] ELSE 0)])

DirEntry_write(e) ==
    NameField(e.name)
      \o write_u16((Len(e.name) + 1) * 2)
      \o write_u8(e.obj_type)
      \o Rep(0, 61)

DirEntry_write_unallacated ==
    Rep(0, 64) \o write_u16(0) \o write_u8(OBJ_TYPE_UNALLOCATED) \o Rep(0, 61)

\* String::from_utf16_lossy: an unpaired surrogate becomes U+FFFD
IsHighSurrogate(u) == u >= 55296 /\ u <= 56319

IsLowSurrogate(u) == u >= 56320 /\ u <= 57343

RECURSIVE from_utf16_lossy(_)
from_utf16_lossy(units) ==
    IF units = <<>> THEN <<>>
    ELSE IF IsHighSurrogate(units[1]) /\ Len(units) >= 2
            /\ IsLowSurrogate(units[2])
         THEN <<units[1], units[2]>> \o from_utf16_lossy(Tail(Tail(units)))
    ELSE IF IsHighSurrogate(units[1]) \/ IsLowSurrogate(units[1])
         THEN <<65533>> \o from_utf16_lossy(Tail(units))
    ELSE <<units[1]>> \o from_utf16_lossy(Tail(units))

\* the length in code units DirEntry::read takes a name to have
name_len_chars(name_len_bytes) ==
    IF name_len_bytes > 0 THEN name_len_bytes \div 2 - 1 ELSE 0

\* DirEntry::read at position p (inside the first limb) of the medium m
DirEntry_read(m, p, sector) ==
    IF p + 66 > Len(m) THEN [status |-> "UnexpectedEof"]
    ELSE LET name_chars == [i \in 1..32 |->
                               read_u16(SubSeq(m, p + 2 * i - 1, p + 2 * i))]
             name_len_bytes == read_u16(SubSeq(m, p + 65, p + 66))
         IN  IF name_len_bytes > 64 \/ name_len_bytes % 2 # 0
             THEN [status |-> "InvalidData"]
             ELSE IF p + DIR_ENTRY_LEN > Len(m)
             THEN [status |-> "UnexpectedEof"]
             ELSE [status |-> "Ok",
                   entry |-> DirEntry(sector,
                       from_utf16_lossy(SubSeq(name_chars, 1,
                                           name_len_chars(name_len_bytes))),
                       m[p + 67])]

\* ------------------------------------------------------------------------
\* CompoundFile::create_with_version
\* the 512 bytes of the header
CreateHeader(v) ==
    Flatten(<<
        MAGIC_NUMBER,
        Rep(0, 16),
        write_u16(MINOR_VERSION),
        write_u16(number(v)),
        write_u16(BYTE_ORDER_MARK),
        write_u16(sector_shift(v)),
        write_u16(MINI_SECTOR_SHIFT),
        Rep(0, 6),
        write_u32(1),
        write_u32(1),
        write_u32(1),
        write_u32(0),
        write_u32(MINI_STREAM_MAX_LEN),
        write_u32(END_OF_CHAIN),
        write_u32(0),
        write_u32(END_OF_CHAIN),
        write_u32(0),
        write_u32(0),
        Flatten([i \in 1..(HEADER_DIFAT_LEN - 1) |-> write_u32(FREE_SECTOR)])
    >>)

\* the length of the padding vector: HEADER_LEN - sector_len, as the code has it
HeaderPadLen(v) == HEADER_LEN - sector_len(v)

CreateFat == <<FAT_SECTOR, END_OF_CHAIN>>

CreateFatSector(v) ==
    Flatten([i \in 1..(sector_len(v) \div 4) |->
        write_u32(IF i <= Len(CreateFat) THEN CreateFat[i] ELSE FREE_SECTOR)])

root_dir_entry == DirEntry(1, ROOT_DIR_NAME, OBJ_TYPE_ROOT)

CreateDirSector(v) ==
    DirEntry_write(root_dir_entry)
      \o Flatten([i \in 1..(sector_len(v) \div DIR_ENTRY_LEN - 1) |->
                     DirEntry_write_unallacated])

\* The outcome of create_with_version on an empty medium.  The subtraction
\* HEADER_LEN - sector_len is a usize subtraction: when it is negative a
\* debug build panics on the overflow and a release build wraps it to a
\* length above isize::MAX, on which vec! panics (capacity overflow).
create_with_version(v) ==
    IF sector_len(v) > HEADER_LEN /\ HeaderPadLen(v) < 0
    THEN [status |-> "panic", inner |-> CreateHeader(v)]
    ELSE LET padded == CreateHeader(v)
                         \o (IF sector_len(v) > HEADER_LEN
                             THEN Rep(0, HeaderPadLen(v)) ELSE <<>>)
         IN  [status |-> "Ok",
              inner |-> padded \o CreateFatSector(v) \o CreateDirSector(v),
              version |-> v,
              difat |-> <<>>,
              fat |-> CreateFat,
              directory |-> <<root_dir_entry>>]

\* ------------------------------------------------------------------------
\* CompoundFile::open, up to the two chain walks
\* where a Cursor stands after a read that failed with UnexpectedEof
EofPos(m, p) == IF p[1] = 0 /\ p[2] < Len(m) THEN PosOf(Len(m)) ELSE p

U32At(m, off) == read_u32(SubSeq(m, off + 1, off + 4))

U16At(m, off) == read_u16(SubSeq(m, off + 1, off + 2))

\* the loop over the 109 DIFAT entries of the header, from entry i on
RECURSIVE InlineDifat(_, _, _)
InlineDifat(m, i, acc) ==
    LET off == 76 + 4 * i IN
    IF i = HEADER_DIFAT_LEN
    THEN [status |-> "Ok", difat |-> acc, pos |-> PosOf(off)]
    ELSE IF off + 4 > Len(m)
    THEN [status |-> "UnexpectedEof", pos |-> EofPos(m, PosOf(off))]
    ELSE IF ULess(MAX_REGULAR_SECTOR, U32At(m, off))
    THEN [status |-> "Ok", difat |-> acc, pos |-> PosOf(off + 4)]
    ELSE InlineDifat(m, i + 1, Append(acc, U32At(m, off)))

Fail(status, m, p) ==
    [status |-> status,
     pos |-> IF status = "UnexpectedEof" THEN EofPos(m, p) ELSE p]

\* a comparison of the first four bytes only
MagicOk_prefix(magic) == SubSeq(magic, 1, 4) = SubSeq(MAGIC_NUMBER, 1, 4)

\* line 94
MagicOk(magic) == magic = MAGIC_NUMBER

\* lines 89-137: the header fields and the DIFAT entries of the header
open_header(m) ==
    IF Len(m) < 8 THEN Fail("UnexpectedEof", m, PosOf(0))
    ELSE IF ~MagicOk(SubSeq(m, 1, 8)) THEN Fail("InvalidData", m, PosOf(8))
    ELSE IF Len(m) < 28 THEN Fail("UnexpectedEof", m, PosOf(26))
    ELSE IF from_number(U16At(m, 26)) = "None"
         THEN Fail("InvalidData", m, PosOf(28))
    ELSE IF Len(m) < 32 THEN Fail("UnexpectedEof", m, PosOf(30))
    ELSE IF U16At(m, 30) # sector_shift(from_number(U16At(m, 26)))
         THEN Fail("InvalidData", m, PosOf(32))
    ELSE IF Len(m) < 52 THEN Fail("UnexpectedEof", m, PosOf(48))
    ELSE IF Len(m) < 76 THEN Fail("UnexpectedEof", m, PosOf(68))
    ELSE LET d == InlineDifat(m, 0, <<>>) IN
         IF d.status # "Ok" THEN d
         ELSE [status |-> "Ok",
               pos |-> d.pos,
               version |-> from_number(U16At(m, 26)),
               first_dir_sector |-> U32At(m, 48),
               first_difat_sector |-> U32At(m, 68),
               num_difat_sectors |-> U32At(m, 72),
               difat |-> d.difat]

\* n consecutive u32 read at position p
ReadU32s(m, p, n) == [i \in 1..n |-> U32At(m, p[2] + 4 * (i - 1))]

\* lines 141-146: one DIFAT sector, its entries and the link to the next
open_difat_sector(m, v, current_difat_sector) ==
    LET p == SectorPos(v, current_difat_sector, 0)
        n == sector_len(v) \div 4 - 1
    IN  IF ~CanRead(m, p, 4 * (n + 1)) THEN Fail("UnexpectedEof", m, p)
        ELSE [status |-> "Ok",
              pos |-> PosOf(p[2] + 4 * (n + 1)),
              entries |-> ReadU32s(m, p, n),
              next |-> U32At(m, p[2] + 4 * n)]

\* lines 164-166: the FAT without its trailing FREESECT entries
TrimFree(f) ==
    LET used == {i \in 1..Len(f) : f[i] # FREE_SECTOR} IN
    IF used = {} THEN <<>>
    ELSE SubSeq(f, 1, CHOOSE i \in used : \A j \in used : j <= i)

\* lines 157-163: the FAT sectors the DIFAT names, from entry index on
RECURSIVE ReadFat(_, _, _, _, _, _)
ReadFat(m, v, dif, index, acc, p0) ==
    IF index > Len(dif) THEN [status |-> "Ok", fat |-> acc, pos |-> p0]
    ELSE LET p == SectorPos(v, dif[index], 0) IN
         IF ~CanRead(m, p, sector_len(v)) THEN Fail("UnexpectedEof", m, p)
         ELSE ReadFat(m, v, dif, index + 1,
                      acc \o ReadU32s(m, p, sector_len(v) \div 4),
                      PosOf(p[2] + sector_len(v)))

\* lines 148-166: the check of the DIFAT chain length, then the FAT
open_fat(m, v, dif, num_difat_sectors, difat_sectors, p0) ==
    IF num_difat_sectors # Len(difat_sectors) THEN Fail("InvalidData", m, p0)
    ELSE LET r == ReadFat(m, v, dif, 1, <<>>, p0) IN
         IF r.status # "Ok" THEN r
         ELSE [status |-> "Ok", pos |-> r.pos, fat |-> TrimFree(r.fat)]

\* lines 172-175: the directory entries of one sector, from slot k on
RECURSIVE ReadDirSector(_, _, _, _, _)
ReadDirSector(m, v, sector, k, acc) ==
    LET p == SectorPos(v, sector, k * DIR_ENTRY_LEN) IN
    IF k = sector_len(v) \div DIR_ENTRY_LEN
    THEN [status |-> "Ok", entries |-> acc, pos |-> p]
    ELSE IF p[1] # 0 THEN Fail("UnexpectedEof", m, p)
    ELSE LET e == DirEntry_read(m, p[2], sector) IN
         IF e.status # "Ok" THEN Fail(e.status, m, p)
         ELSE ReadDirSector(m, v, sector, k + 1, Append(acc, e.entry))

\* lines 171-176: one directory sector and the FAT link that follows it;
\* comp.fat[current_dir_sector as usize] panics outside the FAT
open_dir_sector(m, v, f, current_dir_sector) ==
    LET r == ReadDirSector(m, v, current_dir_sector, 0, <<>>) IN
    IF r.status # "Ok" THEN r
    ELSE IF current_dir_sector < 0 \/ current_dir_sector >= Len(f)
    THEN [status |-> "panic", pos |-> r.pos]
    ELSE [status |-> "Ok", pos |-> r.pos, entries |-> r.entries,
          next |-> f[current_dir_sector + 1]]

\* ------------------------------------------------------------------------
\* Media handed to the program: files as other writers of the format leave
\* them, and damaged ones
NOSTREAM == -1

MkHeader(vnum, shift, first_dir, first_difat, num_difat, dif) ==
    Flatten(<<
        MAGIC_NUMBER, Rep(0, 16), write_u16(MINOR_VERSION), write_u16(vnum),
        write_u16(BYTE_ORDER_MARK), write_u16(shift),
        write_u16(MINI_SECTOR_SHIFT), Rep(0, 6),
        write_u32(0), write_u32(Len(dif)), write_u32(first_dir), write_u32(0),
        write_u32(MINI_STREAM_MAX_LEN), write_u32(END_OF_CHAIN), write_u32(0),
        write_u32(first_difat), write_u32(num_difat),
        Flatten([i \in 1..HEADER_DIFAT_LEN |->
            write_u32(IF i <= Len(dif) /\ i <= HEADER_DIFAT_LEN
                      THEN dif[i] ELSE FREE_SECTOR)])
    >>)

\* a sector of u32 entries, padded with FREESECT up to its last n slots
MkTable(v, entries, last) ==
    Flatten([i \in 1..(sector_len(v) \div 4) |->
        write_u32(IF i <= Len(entries) THEN entries[i]
                  ELSE IF i > sector_len(v) \div 4 - Len(last)
                  THEN last[i - (sector_len(v) \div 4 - Len(last))]
                  ELSE FREE_SECTOR)])

MkDirEntry(name, name_len_bytes, obj_type, child, start_sector, stream_len) ==
    Flatten(<<
        NameField(name), write_u16(name_len_bytes), write_u8(obj_type),
        write_u8(1), write_u32(NOSTREAM), write_u32(NOSTREAM), write_u32(child),
        Rep(0, 16), write_u32(0), Rep(0, 16),
        write_u32(start_sector), write_u32(stream_len), write_u32(0)
    >>)

MkDirSector(v, entries) ==
    Flatten([i \in 1..(sector_len(v) \div DIR_ENTRY_LEN) |->
        IF i <= Len(entries) THEN entries[i]
        ELSE MkDirEntry(<<>>, 0, OBJ_TYPE_UNALLOCATED, NOSTREAM, 0, 0)])

\* a sector of stream data; the bytes differ from place to place and from
\* sector to sector
MkData(v, seed) == [i \in 1..sector_len(v) |-> (seed * 41 + i * 7 + i \div 256) % 256]

NameAB == <<65, 66>>

MkRoot == MkDirEntry(ROOT_DIR_NAME, 22, OBJ_TYPE_ROOT, 1, END_OF_CHAIN, 0)

\* the file create_with_version(V3) leaves
Created3 == create_with_version("V3").inner

\* V3: FAT in sector 0, directory in sectors 1 and 5, streams in 2 -> 4 -> 3
\* and in 6
M_Stream ==
    Flatten(<<
        MkHeader(3, 9, 1, END_OF_CHAIN, 0, <<0>>),
        MkTable("V3", <<FAT_SECTOR, 5, 4, END_OF_CHAIN, 3, END_OF_CHAIN,
                        END_OF_CHAIN>>, <<>>),
        MkDirSector("V3", <<MkRoot,
            MkDirEntry(NameAB, 6, 2, NOSTREAM, 2, 1300),
            MkDirEntry(<<67>>, 4, 2, NOSTREAM, 6, 512)>>),
        MkData("V3", 1), MkData("V3", 2), MkData("V3", 3),
        MkDirSector("V3", <<>>),
        MkData("V3", 4)
    >>)

\* V3, one directory sector; entry 0 is of type storage (1), not root
M_Storage0 ==
    Flatten(<<
        MkHeader(3, 9, 1, END_OF_CHAIN, 0, <<0>>),
        MkTable("V3", <<FAT_SECTOR, END_OF_CHAIN>>, <<>>),
        MkDirSector("V3", <<MkDirEntry(NameAB, 6, 1, NOSTREAM, 0, 0),
                            MkDirEntry(<<67, 68, 69>>, 8, 1, NOSTREAM, 0, 0)>>)
    >>)

\* V3 with one DIFAT sector (sector 2), padded with FREESECT, that names a
\* second FAT sector (sector 3)
M_Difat ==
    Flatten(<<
        MkHeader(3, 9, 1, 2, 1, <<0>>),
        MkTable("V3", <<FAT_SECTOR, END_OF_CHAIN, -4, FAT_SECTOR>>, <<>>),
        MkDirSector("V3", <<MkRoot>>),
        MkTable("V3", <<3>>, <<END_OF_CHAIN>>),
        MkTable("V3", <<>>, <<>>)
    >>)

\* V4, as a conforming writer leaves an empty container
M_V4 ==
    Flatten(<<
        MkHeader(4, 12, 1, END_OF_CHAIN, 0, <<0>>), Rep(0, 4096 - HEADER_LEN),
        MkTable("V4", <<FAT_SECTOR, END_OF_CHAIN>>, <<>>),
        MkDirSector("V4", <<MkRoot>>)
    >>)

\* the header says one DIFAT sector, the chain has none
M_DifatCount == WriteAt(Created3, 72, write_u32(1))

\* entry 1 of the directory has an odd name length
M_BadNameLen == WriteAt(Created3, 1024 + DIR_ENTRY_LEN + 64, write_u16(7))

\* damaged headers
M_Zero == Rep(0, 1536)

M_BadMagic == WriteAt(Created3, 7, <<0>>)

M_Version(n) == WriteAt(Created3, 26, write_u16(n))

M_BadShift == WriteAt(Created3, 30, write_u16(12))

M_Cut(n) == SubSeq(Created3, 1, n)

\* the directory chain runs in a cycle: sector 1 -> 1, and 1 -> 5 -> 1
M_DirLoop == WriteAt(Created3, HEADER_LEN + 4, write_u32(1))

M_DirCycle == WriteAt(M_Stream, HEADER_LEN + 4 * 5, write_u32(1))

\* the DIFAT chain runs in a cycle: DIFAT sector 2 -> 2
M_DifatCycle ==
    WriteAt(M_Difat, HEADER_LEN + 3 * 512 - 4, write_u32(2))

\* the directory chain starts at FREESECT
M_DirFree == WriteAt(Created3, 48, write_u32(FREE_SECTOR))

\* the directory chain starts at sector 3, which the medium has and the FAT
\* (two entries) has not
M_DirOutside == WriteAt(Created3, 48, write_u32(3)) \o Rep(0, 3 * 512)

\* the DIFAT chain starts at DIFSECT
M_DifatReserved == WriteAt(Created3, 68, write_u32(-4))

BadChainMedia ==
    {M_DirLoop, M_DirCycle, M_DifatCycle, M_DirFree, M_DirOutside,
     M_DifatReserved}

BadMagicMedia == {M_Zero, M_BadMagic, WriteAt(M_Stream, 0, <<209>>)}

BadVersionMedia == {M_Version(0), M_Version(5), M_Version(62)}

Media ==
    {<<>>, M_Stream, M_Storage0, M_Difat, M_V4, M_DifatCount, M_BadNameLen,
     M_BadShift, M_Cut(4), M_Cut(27), M_Cut(100), M_Cut(1100)}
      \cup BadMagicMedia \cup BadVersionMedia \cup BadChainMedia

\* ------------------------------------------------------------------------
\* State
VARIABLES
    inner,        \* the bytes of the medium
    pos,          \* the position of the medium's cursor
    pc,           \* "caller": the medium is with the caller; "open_difat",
                  \* "open_dir": inside open; "comp": a CompoundFile owns the
                  \* medium; "panic": a call panicked
    version,      \* CompoundFile.version
    difat,        \* CompoundFile.difat
    fat,          \* CompoundFile.fat
    directory,    \* CompoundFile.directory
    open_locals,  \* the local variables of open
    handle,       \* the Storage or Stream that borrows the CompoundFile
    result,       \* what the last call returned
    created,      \* the version the medium was created with, or "None"
    delivered,    \* the bytes read calls returned since the cursor stood at 0
    renamed       \* the last set_name that succeeded, and the names then

vars == <<inner, pos, pc, version, difat, fat, directory, open_locals, handle,
          result, created, delivered, renamed>>

NoLocals == [first_dir_sector |-> 0, num_difat_sectors |-> 0,
             difat_sectors |-> <<>>, current |-> 0]

NoHandle == [kind |-> "none"]

NoDelivered == [seq |-> FALSE, bytes |-> <<>>]

Init ==
    /\ inner \in Media
    /\ pos = PosOf(0)
    /\ pc = "caller"
    /\ version = "None"
    /\ difat = <<>>
    /\ fat = <<>>
    /\ directory = <<>>
    /\ open_locals = NoLocals
    /\ handle = NoHandle
    /\ result = [op |-> "none", status |-> "none"]
    /\ created = "None"
    /\ delivered = NoDelivered
    /\ renamed = [id |-> -1]

NoComp ==
    /\ version' = "None"
    /\ difat' = <<>>
    /\ fat' = <<>>
    /\ directory' = <<>>
    /\ open_locals' = NoLocals

\* create_with_version on an empty medium
Create(v) ==
    /\ pc = "caller"
    /\ inner = <<>>
    /\ LET r == create_with_version(v) IN
       /\ inner' = r.inner
       /\ pos' = PosOf(Len(r.inner))
       /\ result' = [op |-> "create", status |-> r.status, arg |-> v]
       /\ IF r.status = "Ok"
          THEN /\ pc' = "comp"
               /\ version' = r.version
               /\ difat' = r.difat
               /\ fat' = r.fat
               /\ directory' = r.directory
               /\ created' = v
               /\ open_locals' = NoLocals
          ELSE /\ pc' = "panic"
               /\ created' = created
               /\ NoComp
    /\ UNCHANGED <<handle, delivered, renamed>>

\* into_inner: the medium goes back to the caller
IntoInner ==
    /\ pc = "comp"
    /\ handle = NoHandle
    /\ pc' = "caller"
    /\ NoComp
    /\ result' = [op |-> "into_inner", status |-> "Ok"]
    /\ UNCHANGED <<inner, pos, handle, created, delivered, renamed>>

\* open returns an error (or panics): no CompoundFile
OpenFails(status, p) ==
    /\ pc' = IF status = "panic" THEN "panic" ELSE "caller"
    /\ pos' = p
    /\ NoComp
    /\ result' = [op |-> "open", status |-> status]

\* open, lines 89-139
OpenHeader ==
    /\ pc = "caller"
    /\ LET h == open_header(inner) IN
       IF h.status # "Ok" THEN OpenFails(h.status, h.pos)
       ELSE /\ pc' = "open_difat"
            /\ pos' = h.pos
            /\ version' = h.version
            /\ difat' = h.difat
            /\ fat' = <<>>
            /\ directory' = <<>>
            /\ open_locals' = [first_dir_sector |-> h.first_dir_sector,
                               num_difat_sectors |-> h.num_difat_sectors,
                               difat_sectors |-> <<>>,
                               current |-> h.first_difat_sector]
            /\ result' = [op |-> "open", status |-> "running"]
    /\ UNCHANGED <<inner, handle, created, delivered,
                   renamed>>

\* open, lines 140-147: one turn of the loop over the DIFAT sectors
OpenDifatStep ==
    /\ pc = "open_difat"
    /\ open_locals.current # END_OF_CHAIN
    /\ Len(open_locals.difat_sectors) < MaxDifatWalk
    /\ LET r == open_difat_sector(inner, version, open_locals.current) IN
       IF r.status # "Ok" THEN OpenFails(r.status, r.pos)
       ELSE /\ pos' = r.pos
            /\ difat' = difat \o r.entries
            /\ open_locals' =
                 [open_locals EXCEPT
                    !.difat_sectors = Append(@, open_locals.current),
                    !.current = r.next]
            /\ UNCHANGED <<pc, version, fat, directory, result>>
    /\ UNCHANGED <<inner, handle, created, delivered,
                   renamed>>

\* open, lines 148-169: the DIFAT chain has ended
OpenFat ==
    /\ pc = "open_difat"
    /\ open_locals.current = END_OF_CHAIN
    /\ LET r == open_fat(inner, version, difat, open_locals.num_difat_sectors,
                         open_locals.difat_sectors, pos) IN
       IF r.status # "Ok" THEN OpenFails(r.status, r.pos)
       ELSE /\ pc' = "open_dir"
            /\ pos' = r.pos
            /\ fat' = r.fat
            /\ open_locals' =
                 [open_locals EXCEPT !.current = open_locals.first_dir_sector]
            /\ UNCHANGED <<version, difat, directory, result>>
    /\ UNCHANGED <<inner, handle, created, delivered,
                   renamed>>

\* open, lines 170-177: one turn of the loop over the directory sectors
OpenDirStep ==
    /\ pc = "open_dir"
    /\ open_locals.current # END_OF_CHAIN
    /\ Len(directory) < MaxDirWalk * (sector_len(version) \div DIR_ENTRY_LEN)
    /\ LET r == open_dir_sector(inner, version, fat, open_locals.current) IN
       IF r.status # "Ok" THEN OpenFails(r.status, r.pos)
       ELSE /\ pos' = r.pos
            /\ directory' = directory \o r.entries
            /\ open_locals' = [open_locals EXCEPT !.current = r.next]
            /\ UNCHANGED <<pc, version, difat, fat, result>>
    /\ UNCHANGED <<inner, handle, created, delivered,
                   renamed>>

\* open, line 181: the directory chain has ended
OpenDone ==
    /\ pc = "open_dir"
    /\ open_locals.current = END_OF_CHAIN
    /\ pc' = "comp"
    /\ open_locals' = NoLocals
    /\ result' = [op |-> "open", status |-> "Ok"]
    /\ UNCHANGED <<inner, pos, version, difat, fat, directory, handle, created,
                   delivered, renamed>>

\* ------------------------------------------------------------------------
\* Storage
root_storage == [kind |-> "storage", path |-> "/", stream_id |-> 0]

\* Storage::is_root; directory[stream_id as usize] is there in every state
\* in which a Storage is used (StorageEntryExists)
is_root(dirs, stream_id) == dirs[stream_id + 1].obj_type = OBJ_TYPE_ROOT

\* Storage::name
Storage_name(dirs, stream_id) == dirs[stream_id + 1].name

\* a bound one too high
NameTooLong_loose(name) ==
    Len(SubSeq(name, 1, Min(Len(name), DIR_NAME_MAX_LEN + 2)))
      > DIR_NAME_MAX_LEN + 1

\* line 380: the new name is too long
NameTooLong(name) ==
    Len(SubSeq(name, 1, Min(Len(name), DIR_NAME_MAX_LEN + 1))) > DIR_NAME_MAX_LEN

\* Storage::parent: lines 361-363
Storage_parent(h) == [some |-> TRUE, storage |-> root_storage]

\* Storage::set_name
Storage_set_name(m, p, v, dirs, stream_id, name) ==
    IF is_root(dirs, stream_id)
    THEN [status |-> "InvalidInput", inner |-> m, pos |-> p, directory |-> dirs]
    ELSE IF NameTooLong(name)
    THEN [status |-> "InvalidInput", inner |-> m, pos |-> p, directory |-> dirs]
    ELSE LET sector == dirs[stream_id + 1].sector
             offset == (stream_id % (sector_len(v) \div DIR_ENTRY_LEN))
                         * DIR_ENTRY_LEN
             q == SectorPos(v, sector, offset)
         IN  IF q[1] # 0
             THEN [status |-> "panic", inner |-> m, pos |-> q,
                   directory |-> dirs]
             ELSE [status |-> "Ok",
                   inner |-> WriteAt(m, q[2], NameField(name)),
                   pos |-> PosOf(q[2] + 64),
                   directory |-> [dirs EXCEPT ![stream_id + 1].name = name]]

\* the names handed to set_name
Names ==
    {Rep(65, n) : n \in {0, 1, 2, 3, DIR_NAME_MAX_LEN, DIR_NAME_MAX_LEN + 1,
                         MaxNameLen}}
      \cup {<<66, 65>>, NameAB}

RootStorage ==
    /\ pc = "comp"
    /\ handle = NoHandle
    /\ handle' = root_storage
    /\ result' = [op |-> "root_storage", status |-> "Ok"]
    /\ UNCHANGED <<inner, pos, pc, version, difat, fat, directory, open_locals,
                   created, delivered, renamed>>

\* the Storage or the Stream goes out of scope
DropHandle ==
    /\ pc = "comp"
    /\ handle # NoHandle
    /\ handle' = NoHandle
    /\ result' = [op |-> "drop", status |-> "Ok"]
    /\ delivered' = NoDelivered
    /\ UNCHANGED <<inner, pos, pc, version, difat, fat, directory, open_locals,
                   created, renamed>>

Parent ==
    /\ pc = "comp"
    /\ handle.kind = "storage"
    /\ LET r == Storage_parent(handle) IN
       /\ handle' = IF r.some THEN r.storage ELSE NoHandle
       /\ result' = [op |-> "parent", status |-> "Ok",
                     value |-> IF r.some THEN "Some" ELSE "None",
                     self_path |-> handle.path,
                     self_is_root |-> is_root(directory, handle.stream_id)]
    /\ UNCHANGED <<inner, pos, pc, version, difat, fat, directory, open_locals,
                   created, delivered, renamed>>

SetName(name) ==
    /\ pc = "comp"
    /\ handle.kind = "storage"
    /\ LET r == Storage_set_name(inner, pos, version, directory,
                                 handle.stream_id, name) IN
       /\ inner' = r.inner
       /\ pos' = r.pos
       /\ directory' = r.directory
       /\ pc' = IF r.status = "panic" THEN "panic" ELSE pc
       /\ result' = [op |-> "set_name", status |-> r.status, arg |-> name,
                     stream_id |-> handle.stream_id,
                     self_is_root |-> is_root(directory, handle.stream_id)]
       /\ renamed' =
            IF r.status # "Ok" THEN renamed
            ELSE [id |-> handle.stream_id, name |-> name,
                  names |-> [i \in 1..Len(r.directory) |->
                                r.directory[i].name]]
    /\ UNCHANGED <<version, difat, fat, open_locals, handle, created,
                   delivered>>

\* ------------------------------------------------------------------------
\* Stream
\* fat[sector as usize] is inside the FAT
InFat(f, sector) == sector >= 0 /\ sector < Len(f)

\* lines 444-449: the walk of seek from start_sector; [status, sector, offset]
RECURSIVE SeekWalk(_, _, _, _)
SeekWalk(f, len, sector, offset) ==
    IF offset < len THEN [status |-> "Ok", sector |-> sector, offset |-> offset]
    ELSE IF ~InFat(f, sector) THEN [status |-> "panic"]
    ELSE SeekWalk(f, len, f[sector + 1], offset - len)

\* lines 429-433
SeekTarget(st, whence, delta) ==
    IF whence = "Start" THEN delta
    ELSE IF whence = "End" THEN delta + st.total_len
    ELSE delta + st.offset_from_start

\* the new offset in place of the old one
SeekReturn_new(old_pos, new_pos) == new_pos

\* lines 440, 455: what a successful seek returns
SeekReturn(old_pos, new_pos) == old_pos

\* Stream::seek on the stream st, the medium standing at p
Stream_seek(st, f, v, p, whence, delta) ==
    LET new_pos == SeekTarget(st, whence, delta) IN
    IF new_pos < 0 \/ new_pos > st.total_len
    THEN [status |-> "InvalidInput", stream |-> st, pos |-> p]
    ELSE IF new_pos = st.offset_from_start
    THEN [status |-> "Ok", stream |-> st, pos |-> p,
          value |-> SeekReturn(st.offset_from_start, new_pos)]
    ELSE LET w == SeekWalk(f, sector_len(v), st.start_sector, new_pos) IN
         IF w.status # "Ok" THEN [status |-> "panic", stream |-> st, pos |-> p]
         ELSE [status |-> "Ok",
               stream |-> [st EXCEPT !.current_sector = w.sector,
                                     !.offset_within_sector = w.offset,
                                     !.offset_from_start = new_pos],
               pos |-> SectorPos(v, w.sector, w.offset),
               value |-> SeekReturn(st.offset_from_start, new_pos)]

\* line 468
ReadMaxLen(st, v, buf_len) ==
    Min(buf_len, Min(st.total_len - st.offset_from_start,
                     sector_len(v) - st.offset_within_sector))

\* no seek to the next sector of the chain
NextSectorPos_stay(v, next, p) == p

\* lines 482-486: where the medium stands once read has moved to the sector
\* next in the chain
NextSectorPos(v, next, p) ==
    IF next = END_OF_CHAIN THEN p ELSE SectorPos(v, next, 0)

\* Stream::read into a buffer of buf_len bytes; the debug_assert! of a
\* checked build are panics
Stream_read(st, m, f, v, p, buf_len) ==
    IF \/ st.offset_from_start > st.total_len
       \/ st.offset_within_sector > st.offset_from_start
       \/ st.offset_within_sector >= sector_len(v)
    THEN [status |-> "panic", stream |-> st, pos |-> p, bytes |-> <<>>]
    ELSE IF ReadMaxLen(st, v, buf_len) = 0
    THEN [status |-> "Ok", stream |-> st, pos |-> p, bytes |-> <<>>]
    ELSE LET bytes == ReadAt(m, p, ReadMaxLen(st, v, buf_len))
             bytes_read == Len(bytes)
             p1 == IF bytes_read = 0 THEN p ELSE PosOf(p[2] + bytes_read)
             st1 == [st EXCEPT
                        !.offset_from_start = @ + bytes_read,
                        !.offset_within_sector = @ + bytes_read]
         IN  IF st1.offset_within_sector # sector_len(v)
             THEN [status |-> "Ok", stream |-> st1, pos |-> p1,
                   bytes |-> bytes]
             ELSE IF ~InFat(f, st.current_sector)
             THEN [status |-> "panic", stream |-> st1, pos |-> p1,
                   bytes |-> bytes]
             ELSE LET next == f[st.current_sector + 1]
                      st2 == [st1 EXCEPT !.offset_within_sector = 0,
                                         !.current_sector = next]
                  IN  IF next = END_OF_CHAIN
                         /\ st2.offset_from_start # st2.total_len
                      THEN [status |-> "panic", stream |-> st2, pos |-> p1,
                            bytes |-> bytes]
                      ELSE [status |-> "Ok", stream |-> st2,
                            pos |-> NextSectorPos(v, next, p1),
                            bytes |-> bytes]

\* the sectors of the chain that starts at sector, or <<-1>> at its end when
\* it leaves the FAT or runs longer than the FAT
RECURSIVE Chain(_, _, _)
Chain(f, sector, fuel) ==
    IF sector = END_OF_CHAIN THEN <<>>
    ELSE IF fuel = 0 \/ ~InFat(f, sector) THEN <<-1>>
    ELSE <<sector>> \o Chain(f, f[sector + 1], fuel - 1)

CeilDiv(a, b) == (a + b - 1) \div b

\* the chain of a stream of total_len bytes is there: ceil(total_len /
\* sector_len) sectors, each of them inside the medium
ChainFits(m, f, v, start_sector, total_len) ==
    LET c == Chain(f, start_sector, Len(f)) IN
    /\ Len(c) = CeilDiv(total_len, sector_len(v))
    /\ \A i \in 1..Len(c) :
          c[i] >= 0 /\ sector_len(v) * (c[i] + 2) <= Len(m)

\* a Stream as it is built on an entry's chain: at offset 0, the medium at
\* the start of the first sector
new_stream(v, p, start_sector, total_len) ==
    [stream |-> [kind |-> "stream",
                 total_len |-> total_len,
                 offset_from_start |-> 0,
                 offset_within_sector |-> 0,
                 start_sector |-> start_sector,
                 current_sector |-> start_sector],
     pos |-> IF start_sector = END_OF_CHAIN THEN p
             ELSE SectorPos(v, start_sector, 0)]

\* the streams cursors are opened on: <<start_sector, total_len>>, those of
\* the directory of M_Stream among them
Streams ==
    {<<2, 1300>>, <<2, MaxStreamLen>>, <<6, 512>>, <<6, 1>>,
     <<END_OF_CHAIN, 0>>}

BufLens == {0, 200, 512, MaxBufLen}

SeekArgs(st) ==
    ({"Start"} \X ({0, 1, 511, 512, 513, 1024, 1300, MaxStreamLen + 1}
                     \cup {st.total_len, st.total_len + 1}))
      \cup ({"End"} \X {-1024, -1, 0, 1})
      \cup ({"Current"} \X {-512, 0, 512})

NewStream(start_sector, total_len) ==
    /\ pc = "comp"
    /\ handle = NoHandle
    /\ ChainFits(inner, fat, version, start_sector, total_len)
    /\ LET r == new_stream(version, pos, start_sector, total_len) IN
       /\ handle' = r.stream
       /\ pos' = r.pos
    /\ result' = [op |-> "new_stream", status |-> "Ok"]
    /\ delivered' = [seq |-> TRUE, bytes |-> <<>>]
    /\ UNCHANGED <<inner, pc, version, difat, fat, directory, open_locals,
                   created, renamed>>

Seek(whence, delta) ==
    /\ pc = "comp"
    /\ handle.kind = "stream"
    /\ LET r == Stream_seek(handle, fat, version, pos, whence, delta) IN
       /\ handle' = r.stream
       /\ pos' = r.pos
       /\ pc' = IF r.status = "panic" THEN "panic" ELSE pc
       /\ result' = [op |-> "seek", status |-> r.status, whence |-> whence,
                     arg |-> delta,
                     value |-> IF r.status = "Ok" THEN r.value ELSE -1,
                     prior |-> IF result.op = "seek" /\ result.status = "Ok"
                                  /\ result.whence = "Start"
                               THEN result.arg ELSE -1]
       /\ delivered' =
            IF r.status # "Ok" \/ r.stream = handle THEN delivered
            ELSE [seq |-> r.stream.offset_from_start = 0, bytes |-> <<>>]
    /\ UNCHANGED <<inner, version, difat, fat, directory, open_locals,
                   created, renamed>>

Read(buf_len) ==
    /\ pc = "comp"
    /\ handle.kind = "stream"
    /\ LET r == Stream_read(handle, inner, fat, version, pos, buf_len) IN
       /\ handle' = r.stream
       /\ pos' = r.pos
       /\ pc' = IF r.status = "panic" THEN "panic" ELSE pc
       /\ result' = [op |-> "read", status |-> r.status, arg |-> buf_len,
                     value |-> Len(r.bytes), bytes |-> r.bytes]
       /\ delivered' = IF delivered.seq
                       THEN [delivered EXCEPT !.bytes = @ \o r.bytes]
                       ELSE delivered
    /\ UNCHANGED <<inner, version, difat, fat, directory, open_locals,
                   created, renamed>>

\* line 450: Stream::seek when the medium F returns an error from the seek of
\* seek_within_sector; `?` returns it before any field of the cursor is
\* assigned
SeekMediumError(whence, delta) ==
    /\ pc = "comp"
    /\ handle.kind = "stream"
    /\ SeekTarget(handle, whence, delta) # handle.offset_from_start
    /\ Stream_seek(handle, fat, version, pos, whence, delta).status = "Ok"
    /\ result' = [op |-> "seek", status |-> "Other", whence |-> whence,
                  arg |-> delta, value |-> -1, prior |-> -1]
    /\ UNCHANGED <<inner, pos, pc, version, difat, fat, directory,
                   open_locals, handle, created, delivered, renamed>>

\* Stream::read when the medium F returns an error: from its read at line
\* 473 (at = "read"), before any field is assigned, or from the seek of
\* seek_to_sector at line 485 (at = "seek"), after lines 474-481 have moved
\* the cursor to the next sector; the bytes read are not reported
ReadMediumError(buf_len, at) ==
    /\ pc = "comp"
    /\ handle.kind = "stream"
    /\ LET r == Stream_read(handle, inner, fat, version, pos, buf_len) IN
       /\ r.status = "Ok"
       /\ ReadMaxLen(handle, version, buf_len) > 0
       /\ IF at = "read"
          THEN UNCHANGED <<handle, pos, delivered>>
          ELSE /\ Len(r.bytes) > 0
               /\ handle.offset_within_sector + Len(r.bytes)
                    = sector_len(version)
               /\ r.stream.current_sector # END_OF_CHAIN
               /\ handle' = r.stream
               /\ pos' = PosOf(pos[2] + Len(r.bytes))
               /\ delivered' = [seq |-> FALSE, bytes |-> <<>>]
    /\ result' = [op |-> "read", status |-> "Other", arg |-> buf_len,
                  value |-> 0, bytes |-> <<>>]
    /\ UNCHANGED <<inner, pc, version, difat, fat, directory, open_locals,
                   created, renamed>>

\* ------------------------------------------------------------------------
Next ==
    \/ \E v \in Versions : Create(v)
    \/ IntoInner
    \/ OpenHeader
    \/ OpenDifatStep
    \/ OpenFat
    \/ OpenDirStep
    \/ OpenDone
    \/ RootStorage
    \/ DropHandle
    \/ Parent
    \/ \E name \in Names : SetName(name)
    \/ \E s \in Streams : NewStream(s[1], s[2])
    \/ /\ handle.kind = "stream"
       /\ \E a \in SeekArgs(handle) : Seek(a[1], a[2])
    \/ \E n \in BufLens : Read(n)
    \/ /\ handle.kind = "stream"
       /\ \E a \in SeekArgs(handle) : SeekMediumError(a[1], a[2])
    \/ \E n \in BufLens, at \in {"read", "seek"} : ReadMediumError(n, at)

Spec == Init /\ [][Next]_vars

TypeOK ==
    /\ inner \in Seq(0..255)
    /\ pc \in {"caller", "open_difat", "open_dir", "comp", "panic"}
    /\ handle.kind \in {"none", "storage", "stream"}

\* ------------------------------------------------------------------------
\* Properties
\* a directory entry as the medium holds it at byte offset off (the layout
\* DirEntry::read walks through)
DiskEntry(m, off) ==
    [name |-> from_utf16_lossy(
                  SubSeq([i \in 1..32 |-> U16At(m, off + 2 * (i - 1))], 1,
                         name_len_chars(U16At(m, off + 64)))),
     obj_type |-> m[off + 67],
     left_sibling |-> U32At(m, off + 68),
     right_sibling |-> U32At(m, off + 72),
     child |-> U32At(m, off + 76),
     start_sector |-> U32At(m, off + 116),
     stream_len_low |-> U32At(m, off + 120),
     stream_len_high |-> U32At(m, off + 124)]

\* the sector indices whose FAT entry is FATSECT, in rising order
RECURSIVE FatSectorsOf(_, _)
FatSectorsOf(f, i) ==
    IF i > Len(f) THEN <<>>
    ELSE (IF f[i] = FAT_SECTOR THEN <<i - 1>> ELSE <<>>)
           \o FatSectorsOf(f, i + 1)

\* the bytes of a stream: the sectors of its chain, cut at its length
StreamBytes(m, f, v, start_sector, total_len) ==
    LET c == Chain(f, start_sector, Len(f)) IN
    SubSeq(Flatten([i \in 1..Len(c) |->
                       SubSeq(m, sector_len(v) * (c[i] + 1) + 1,
                              sector_len(v) * (c[i] + 2))]),
           1, total_len)

OpenStep ==
    OpenHeader \/ OpenDifatStep \/ OpenFat \/ OpenDirStep \/ OpenDone

\* C1: for every version v, create_with_version on an empty medium succeeds,
\* and open on the medium it leaves succeeds with version v, entry 0 named
\* "Root Entry" of type root, and every other directory slot unallocated.
C1_CreateOpenRoundTrip ==
    /\ result.op = "create" => result.status = "Ok"
    /\ (created # "None" /\ result.op = "open" /\ result.status # "running")
         => /\ result.status = "Ok"
            /\ version = created
            /\ Len(directory) = sector_len(created) \div DIR_ENTRY_LEN
            /\ directory[1].name = ROOT_DIR_NAME
            /\ directory[1].obj_type = OBJ_TYPE_ROOT
            /\ \A i \in 2..Len(directory) :
                  directory[i].obj_type = OBJ_TYPE_UNALLOCATED

\* C2: for every version v, create_with_version on an empty medium completes
\* without error or overflow and leaves the medium 3 * sector_len(v) bytes
\* long.
C2_CreateLength ==
    result.op = "create"
      => /\ result.status = "Ok"
         /\ Len(inner) = 3 * sector_len(result.arg)

\* C3: read calls on a cursor that starts at offset 0 each return at most
\* min(buf.len(), rest of the sector, rest of the stream) bytes and at least
\* one while the buffer and the rest of the stream are not empty; what they
\* deliver is, in order, the bytes of the sectors of the FAT chain from
\* start_sector, total_len bytes in all; a read at the end returns 0 and
\* changes no field of the cursor.
C3_ReadLaw ==
    /\ [](handle.kind = "stream" /\ delivered.seq
            => delivered.bytes =
                 SubSeq(StreamBytes(inner, fat, version, handle.start_sector,
                                    handle.total_len),
                        1, handle.offset_from_start))
    /\ [][\A n \in BufLens :
            Read(n) =>
              /\ result'.status = "Ok"
              /\ result'.value <=
                   Min(n, Min(sector_len(version) - handle.offset_within_sector,
                              handle.total_len - handle.offset_from_start))
              /\ (n > 0 /\ handle.offset_from_start < handle.total_len)
                   => result'.value > 0
              /\ handle'.offset_from_start
                   = handle.offset_from_start + result'.value
              /\ handle.offset_from_start = handle.total_len
                   => result'.value = 0 /\ handle' = handle /\ pos' = pos]_vars

\* a stream of 1300 bytes on the chain 2 -> 4 -> 3 was read from 0 to its end,
\* and a read after that returned 0
C3_Witness ==
    /\ handle.kind = "stream"
    /\ handle.start_sector = 2
    /\ handle.total_len = 1300
    /\ delivered.seq
    /\ Len(delivered.bytes) = 1300
    /\ result.op = "read"
    /\ result.arg > 0
    /\ result.value = 0

\* C4: seek returns the offset the cursor had before the call; seek(Start(p))
\* with 0 <= p <= total_len succeeds and leaves the cursor at p, and a
\* seek(Current(0)) right after it returns p and leaves the cursor at p.
C4_SeekLaw ==
    [][handle.kind = "stream" =>
         \A a \in SeekArgs(handle) :
            Seek(a[1], a[2]) =>
              /\ result'.status = "Ok"
                   => result'.value = handle.offset_from_start
              /\ (a[1] = "Start" /\ a[2] >= 0 /\ a[2] <= handle.total_len)
                   => /\ result'.status = "Ok"
                      /\ handle'.offset_from_start = a[2]
              /\ (a = <<"Current", 0>> /\ result.op = "seek"
                    /\ result.status = "Ok" /\ result.whence = "Start")
                   => /\ result'.status = "Ok"
                      /\ result'.value = result.arg
                      /\ handle'.offset_from_start = result.arg]_vars

\* seek(Current(0)) right after a seek(Start(513)) that moved the cursor
C4_Witness ==
    /\ handle.kind = "stream"
    /\ result.op = "seek"
    /\ result.whence = "Current"
    /\ result.arg = 0
    /\ result.prior = 513
    /\ result.value = 513

\* C5: open on a medium of at least 512 bytes whose first 8 bytes are not the
\* magic number, or whose major version is neither 3 nor 4, fails with
\* InvalidData and returns no container; open never changes the medium.
C5_OpenBadFormat ==
    [][/\ OpenStep => inner' = inner
       /\ (OpenHeader /\ Len(inner) >= HEADER_LEN
             /\ (SubSeq(inner, 1, 8) # MAGIC_NUMBER
                   \/ U16At(inner, 26) \notin {3, 4}))
            => /\ result' = [op |-> "open", status |-> "InvalidData"]
               /\ pc' = "caller"
               /\ version' = "None"
               /\ directory' = <<>>]_vars

\* open has refused a medium of 1536 bytes whose magic number is wrong in
\* its last byte only
C5_Witness ==
    /\ result = [op |-> "open", status |-> "InvalidData"]
    /\ inner = M_BadMagic
    /\ pc = "caller"

\* C6: set_name fails with InvalidInput whenever the entry is of type root or
\* the new name has more than 31 UTF-16 code units, and a set_name that
\* fails so changes neither the medium nor the directory in memory.
C6_SetNameRejects ==
    [][\A name \in Names :
         SetName(name) =>
           /\ (is_root(directory, handle.stream_id)
                 \/ Len(name) > DIR_NAME_MAX_LEN)
                => result'.status = "InvalidInput"
           /\ result'.status = "InvalidInput"
                => inner' = inner /\ directory' = directory]_vars

\* set_name has refused a name of 32 code units on an entry that is not root
C6_Witness ==
    /\ result.op = "set_name"
    /\ result.status = "InvalidInput"
    /\ ~result.self_is_root
    /\ Len(result.arg) = DIR_NAME_MAX_LEN + 1

\* C7: after a set_name(n) that succeeded the entry's name in memory is n, and
\* an open of the medium finds the name n in that entry and the names of the
\* other entries as they were.
C7_RenameRoundTrip ==
    /\ (result.op = "set_name" /\ result.status = "Ok")
         => directory[result.stream_id + 1].name = result.arg
    /\ (renamed.id >= 0 /\ result = [op |-> "open", status |-> "Ok"])
         => /\ Len(directory) = Len(renamed.names)
            /\ directory[renamed.id + 1].name = renamed.name
            /\ \A i \in 1..Len(directory) :
                  directory[i].name = renamed.names[i]

\* C8: in every container create_with_version or open returns, the DIFAT in
\* memory lists exactly the sectors whose FAT entry is FATSECT, in order, and
\* holds no reserved value.
C8_DifatListsFatSectors ==
    pc = "comp"
      => /\ difat = FatSectorsOf(fat, 1)
         /\ \A i \in 1..Len(difat) : ~ULess(MAX_REGULAR_SECTOR, difat[i])

\* C9: the root entry create writes in the first slot of the directory sector
\* has name "Root Entry", type root, start_sector ENDOFCHAIN, stream_len 0,
\* left and right sibling NOSTREAM; the other slots are unallocated.
C9_RootEntryOnDisk ==
    (result.op = "create" /\ result.status = "Ok")
      => LET base == 2 * sector_len(version)
             root == DiskEntry(inner, base)
         IN  /\ root.name = ROOT_DIR_NAME
             /\ root.obj_type = OBJ_TYPE_ROOT
             /\ root.start_sector = END_OF_CHAIN
             /\ root.stream_len_low = 0
             /\ root.stream_len_high = 0
             /\ root.left_sibling = NOSTREAM
             /\ root.right_sibling = NOSTREAM
             /\ \A k \in 1..(sector_len(version) \div DIR_ENTRY_LEN - 1) :
                   DiskEntry(inner, base + k * DIR_ENTRY_LEN).obj_type
                     = OBJ_TYPE_UNALLOCATED

\* C10: parent returns None when the storage is the root storage entry (the
\* one root_storage gives, path "/"), and Some only for another storage.
C10_ParentOfRoot ==
    result.op = "parent"
      => (result.value = "None"
            <=> (result.self_path = "/" \/ result.self_is_root))

\* a sector index that is no sector of the medium m: a reserved value other
\* than ENDOFCHAIN, or an index past the end of the medium
NoSector(m, v, s) ==
    /\ s # END_OF_CHAIN
    /\ \/ s < 0
       \/ ULess(MAX_REGULAR_SECTOR, s)
       \/ s + 2 > Len(m) \div sector_len(v)

\* the directory sectors open has read so far
DirSectorsRead == {directory[i].sector : i \in 1..Len(directory)}

DifatSectorsRead ==
    {open_locals.difat_sectors[i] : i \in 1..Len(open_locals.difat_sectors)}

OpenRefused ==
    /\ result' = [op |-> "open", status |-> "InvalidData"]
    /\ pc' = "caller"

\* C11: when the directory chain or the DIFAT chain that open follows comes
\* back to a sector it has read (a cycle), or reaches a reserved value other
\* than ENDOFCHAIN or an index outside the medium or the FAT, open returns
\* InvalidData: it neither goes on round the cycle nor panics nor fails
\* with another error.
C11_OpenRejectsBadChains ==
    [][/\ (OpenDirStep
             /\ \/ open_locals.current \in DirSectorsRead
                \/ NoSector(inner, version, open_locals.current)
                \/ open_locals.current >= Len(fat))
            => OpenRefused
       /\ (OpenDifatStep
             /\ \/ open_locals.current \in DifatSectorsRead
                \/ NoSector(inner, version, open_locals.current))
            => OpenRefused]_vars

\* the sector n links after sector s in the FAT f
RECURSIVE FollowLinks(_, _, _)
FollowLinks(f, s, n) ==
    IF n = 0 THEN s
    ELSE IF ~InFat(f, s) THEN -1
    ELSE FollowLinks(f, f[s + 1], n - 1)

\* C12: a cursor that started at offset 0 of a stream whose chain has
\* ceil(total_len / sector_len) sectors has, after any seek and read calls,
\* offset_from_start <= total_len, offset_within_sector = offset_from_start
\* mod sector_len, current_sector the sector floor(offset_from_start /
\* sector_len) links after start_sector (ENDOFCHAIN only at offset
\* total_len), and, while offset_from_start < total_len, the medium at
\* sector_len * (1 + current_sector) + offset_within_sector.
C12_CursorConsistent ==
    handle.kind = "stream"
      => /\ handle.offset_from_start >= 0
         /\ handle.offset_from_start <= handle.total_len
         /\ handle.offset_within_sector
              = handle.offset_from_start % sector_len(version)
         /\ handle.current_sector
              = FollowLinks(fat, handle.start_sector,
                            handle.offset_from_start \div sector_len(version))
         /\ handle.current_sector = END_OF_CHAIN
              => handle.offset_from_start = handle.total_len
         /\ handle.offset_from_start < handle.total_len
              => pos = PosOf(sector_len(version) * (1 + handle.current_sector)
                               + handle.offset_within_sector)

====
